---- MODULE Spec2Model ----
(***************************************************************************)
(* Footnotes extension of Python-Markdown                                  *)
(* (markdown/extensions/footnotes.py).                                     *)
(*                                                                         *)
(* The state is the FootnoteExtension object (footnotes, footnote_order,   *)
(* found_refs, used_refs, unique_prefix, its two policy options), the      *)
(* document tree the tree processors work on, the reference nodes the      *)
(* inline processor has returned, and the position of the conversion in    *)
(* the processor pipeline.  Strings that the code takes apart (anchor ids, *)
(* hrefs, labels) are sequences of one-character strings, so that          *)
(* formatting, splitting and the RE_REF_ID match are computed as the code  *)
(* computes them.                                                          *)
(***************************************************************************)
EXTENDS Integers, Sequences, FiniteSets, TLC

VARIABLES
    config,          \* [UNIQUE_IDS, USE_DEFINITION_ORDER], fixed at construction
    unique_prefix,   \* FootnoteExtension.unique_prefix
    footnotes,       \* FootnoteExtension.footnotes: OrderedDict as a sequence of [id, text]
    footnote_order,  \* FootnoteExtension.footnote_order
    found_refs,      \* FootnoteExtension.found_refs: function anchor id -> count
    used_refs,       \* FootnoteExtension.used_refs
    stage,           \* the processor of the conversion that is running
    ran,             \* tree processors that have completed in this conversion
    tree,            \* children of the document root, in document order
    refs,            \* <sup> nodes returned by handleMatch in this conversion
    error,           \* the exception that ended the conversion, or "none"
    last,            \* the most recent call and what it returned
    queue,           \* the text blocks the block parser has not consumed (specification SpecBlocks)
    log,             \* the calls of the current render (specification SpecReplay)
    prev             \* what is kept of an earlier complete render (SpecRenders, SpecReplay)

vars == <<config, unique_prefix, footnotes, footnote_order, found_refs, used_refs,
          stage, ran, tree, refs, error, last, queue, log, prev>>

store == <<footnotes, footnote_order, found_refs, used_refs, unique_prefix>>

hist == <<log, prev>>

-----------------------------------------------------------------------------
(* Bounds *)

MaxPrefix == 3

MaxRefs == 3

MaxLogDefs == 2

MaxBlocks == 3

-----------------------------------------------------------------------------
(* Inputs *)

LabelA == <<"a">>

\* a label that holds the separator and a digit
LabelB == <<"b", ":", "2">>

Labels == {LabelA, LabelB}

PLACE_MARKER == "///Footnotes Go Here///"

\* Definition bodies: an empty body, a paragraph, a list.
Texts == {"", "Note.", "* item"}

-----------------------------------------------------------------------------
(* Strings *)

DigitChars == <<"0", "1", "2", "3", "4", "5", "6", "7", "8", "9">>

IsDigit(c) == \E i \in 1..10 : DigitChars[i] = c

DigitVal(c) == (CHOOSE i \in 1..10 : DigitChars[i] = c) - 1

RECURSIVE Dec(_)
\* '%d' % n
Dec(n) == IF n < 10 THEN <<DigitChars[n + 1]>>
          ELSE Dec(n \div 10) \o <<DigitChars[(n % 10) + 1]>>

RECURSIVE ParseInt(_)
\* int(s) for a string of digits
ParseInt(s) == IF Len(s) = 0 THEN 0
               ELSE ParseInt(SubSeq(s, 1, Len(s) - 1)) * 10 + DigitVal(s[Len(s)])

get_separator == ":"

\* s.split(get_separator(), 1): one part when the separator does not occur
Split1(s) ==
    LET hits == {i \in 1..Len(s) : s[i] = get_separator}
    IN IF hits = {} THEN <<s>>
       ELSE LET i == CHOOSE h \in hits : \A g \in hits : h <= g
            IN <<SubSeq(s, 1, i - 1), SubSeq(s, i + 1, Len(s))>>

FN == <<"f", "n">>

FNREF == <<"f", "n", "r", "e", "f">>

\* RE_REF_ID.match(ref): 'fnref' followed by at least one digit
RE_REF_ID_match(ref) ==
    /\ Len(ref) >= 6
    /\ SubSeq(ref, 1, 5) = FNREF
    /\ IsDigit(ref[6])

\* m.group(2): the longest run of digits after 'fnref'
RE_REF_ID_group2(ref) ==
    LET ends == {j \in 6..Len(ref) : \A k \in 6..j : IsDigit(ref[k])}
        e == CHOOSE j \in ends : \A k \in ends : k <= j
    IN SubSeq(ref, 6, e)

\* the characters str.strip() and str.rstrip() remove when called without argument
Whitespace == {" ", "\n", "\t"}

\* s.lstrip(chars), s.rstrip(chars), s.strip(chars) for a set of characters
lstrip(s, chars) ==
    LET keep == {i \in 1..Len(s) : s[i] \notin chars}
    IN IF keep = {} THEN <<>>
       ELSE SubSeq(s, CHOOSE i \in keep : \A j \in keep : i <= j, Len(s))

rstrip(s, chars) ==
    LET keep == {i \in 1..Len(s) : s[i] \notin chars}
    IN IF keep = {} THEN <<>>
       ELSE SubSeq(s, 1, CHOOSE i \in keep : \A j \in keep : j <= i)

strip(s, chars) == lstrip(rstrip(s, chars), chars)

\* s.startswith(p)
startswith(s, p) == Len(s) >= Len(p) /\ SubSeq(s, 1, Len(p)) = p

RECURSIVE split(_, _)
\* s.split(sep) for a separator of one character
split(s, sep) ==
    LET hits == {i \in 1..Len(s) : s[i] = sep}
    IN IF hits = {} THEN <<s>>
       ELSE LET i == CHOOSE h \in hits : \A g \in hits : h <= g
            IN <<SubSeq(s, 1, i - 1)>> \o split(SubSeq(s, i + 1, Len(s)), sep)

RECURSIVE join(_, _)
\* sep.join(parts)
join(sep, parts) ==
    IF parts = <<>> THEN <<>>
    ELSE IF Len(parts) = 1 THEN parts[1]
    ELSE parts[1] \o sep \o join(sep, Tail(parts))

\* the first position from `from` on whose character is not in chars, Len(s) + 1
\* when there is none
SkipChars(s, from, chars) ==
    LET stops == {k \in from..Len(s) : s[k] \notin chars}
    IN IF stops = {} THEN Len(s) + 1
       ELSE CHOOSE k \in stops : \A j \in stops : k <= j

\* the first position from `from` on that holds the character c, Len(s) + 1
\* when there is none
FindChar(s, from, c) == SkipChars(s, from, {s[k] : k \in 1..Len(s)} \ {c})

-----------------------------------------------------------------------------
(* FootnoteExtension: the store *)

Keys(fn) == [i \in 1..Len(fn) |-> fn[i].id]

KeySet(fn) == {fn[i].id : i \in 1..Len(fn)}

\* s.index(x) + 1
IndexOf(s, x) == CHOOSE i \in 1..Len(s) : s[i] = x /\ \A j \in 1..(i - 1) : s[j] # x

InSeq(s, x) == \E i \in 1..Len(s) : s[i] = x

\* the least number of a set of numbers that is not empty
Min(S) == CHOOSE h \in S : \A g \in S : h <= g

\* setFootnote as a removal of the stored entry followed by an insertion at the end
setFootnote_reinsert(fn, id, text) ==
    Append(SelectSeq(fn, LAMBDA e : e.id # id), [id |-> id, text |-> text])

\* self.footnotes[id] = text
setFootnote(fn, id, text) ==
    IF id \in KeySet(fn)
    THEN [i \in 1..Len(fn) |-> IF fn[i].id = id THEN [id |-> id, text |-> text] ELSE fn[i]]
    ELSE Append(fn, [id |-> id, text |-> text])

\* addFootnoteRef without the membership test
addFootnoteRef_append(order, id) == Append(order, id)

addFootnoteRef(order, id) ==
    IF InSeq(order, id) THEN order ELSE Append(order, id)

\* makeFootnoteId without the branch for UNIQUE_IDS
makeFootnoteId_plain(cfg, prefix, id) ==
    FN \o <<get_separator>> \o id

makeFootnoteId(cfg, prefix, id) ==
    IF cfg.UNIQUE_IDS
    THEN FN \o <<get_separator>> \o Dec(prefix) \o <<"-">> \o id
    ELSE FN \o <<get_separator>> \o id

\* the reference handed to unique_ref by makeFootnoteRefId
RefBase(cfg, prefix, id) ==
    IF cfg.UNIQUE_IDS
    THEN FNREF \o <<get_separator>> \o Dec(prefix) \o <<"-">> \o id
    ELSE FNREF \o <<get_separator>> \o id

RECURSIVE WhileUsed(_, _, _)
\* the while loop of unique_ref after n iterations: the reference it ends
\* with and the number of iterations it took
WhileUsed(reference, used, n) ==
    IF reference \notin used THEN [ref |-> reference, iterations |-> n]
    ELSE LET parts == Split1(reference)
             ref == parts[1]
             rest == parts[2]
         IN IF RE_REF_ID_match(ref)
            THEN WhileUsed(FNREF \o Dec(ParseInt(RE_REF_ID_group2(ref)) + 1)
                             \o <<get_separator>> \o rest, used, n + 1)
            ELSE WhileUsed(ref \o Dec(2) \o <<get_separator>> \o rest, used, n + 1)

\* the reference the while loop of unique_ref ends with
Disambiguate(reference, used) == WhileUsed(reference, used, 0).ref

\* unique_ref without the line that records the returned id in used_refs
unique_ref_unrecorded(reference, found, used, frefs) ==
    IF ~found
    THEN [ref |-> reference, used |-> used, found_refs |-> frefs]
    ELSE LET r == Disambiguate(reference, used)
         IN [ref |-> r,
             used |-> used,
             found_refs |-> IF reference \in DOMAIN frefs
                            THEN [frefs EXCEPT ![reference] = @ + 1]
                            ELSE [x \in DOMAIN frefs \cup {reference} |->
                                    IF x = reference THEN 1 ELSE frefs[x]]]

\* unique_ref counting in found_refs under the id it returns
unique_ref_returned(reference, found, used, frefs) ==
    IF ~found
    THEN [ref |-> reference, used |-> used, found_refs |-> frefs]
    ELSE LET r == Disambiguate(reference, used)
         IN [ref |-> r,
             used |-> used \cup {r},
             found_refs |-> IF r \in DOMAIN frefs
                            THEN [frefs EXCEPT ![r] = @ + 1]
                            ELSE [x \in DOMAIN frefs \cup {r} |->
                                    IF x = r THEN 1 ELSE frefs[x]]]

\* unique_ref(reference, found): the returned id and the two structures after it
unique_ref(reference, found, used, frefs) ==
    IF ~found
    THEN [ref |-> reference, used |-> used, found_refs |-> frefs]
    ELSE LET r == Disambiguate(reference, used)
         IN [ref |-> r,
             used |-> used \cup {r},
             found_refs |-> IF reference \in DOMAIN frefs
                            THEN [frefs EXCEPT ![reference] = @ + 1]
                            ELSE [x \in DOMAIN frefs \cup {reference} |->
                                    IF x = reference THEN 1 ELSE frefs[x]]]

\* makeFootnoteRefId passing found=True whoever calls it
makeFootnoteRefId_found(cfg, prefix, id, found, used, frefs) ==
    unique_ref(RefBase(cfg, prefix, id), TRUE, used, frefs)

makeFootnoteRefId(cfg, prefix, id, found, used, frefs) ==
    unique_ref(RefBase(cfg, prefix, id), found, used, frefs)

-----------------------------------------------------------------------------
(* FootnoteBlockProcessor *)

NL == <<"\n">>

\* ' '*4
INDENT == <<" ", " ", " ", " ">>

\* RE matched with its first character at position i: at most three spaces,
\* '[^', the label up to the first ']', ':' right after it
RE_match_at(s, i) ==
    LET b == SkipChars(s, i, {" "})
    IN /\ b - i <= 3
       /\ b + 1 <= Len(s)
       /\ s[b] = "["
       /\ s[b + 1] = "^"
       /\ LET c == FindChar(s, b + 2, "]")
          IN c + 1 <= Len(s) /\ s[c + 1] = ":"

\* the match object of RE matched with its first character at position i
RE_match(s, i) ==
    LET b == SkipChars(s, i, {" "})
        c == FindChar(s, b + 2, "]")
        e == FindChar(s, c + 2, "\n") - 1
    IN [start |-> i, end |-> e,
        id |-> SubSeq(s, b + 2, c - 1),
        rest |-> SubSeq(s, SkipChars(s, c + 2, {" "}), e)]

\* RE.search(s): <<>> for None, else the one match object: start and end are
\* the first and the last position of the match, id is group(1), rest is group(2)
RE_search(s) ==
    LET starts == {i \in 1..Len(s) : (i = 1 \/ s[i - 1] = "\n") /\ RE_match_at(s, i)}
    IN IF starts = {} THEN <<>> ELSE <<RE_match(s, Min(starts))>>

\* detab taking the four leading spaces off the first line only
detab_first(block) ==
    LET lines == split(block, "\n")
    IN join(NL, [i \in 1..Len(lines) |->
                   IF i = 1 /\ startswith(lines[i], INDENT)
                   THEN SubSeq(lines[i], Len(INDENT) + 1, Len(lines[i]))
                   ELSE lines[i]])

\* detab(block): four leading spaces taken off every line that has them
detab(block) ==
    LET lines == split(block, "\n")
    IN join(NL, [i \in 1..Len(lines) |->
                   IF startswith(lines[i], INDENT)
                   THEN SubSeq(lines[i], Len(INDENT) + 1, Len(lines[i]))
                   ELSE lines[i]])

RECURSIVE detectTabbed(_)
\* detectTabbed(blocks): the list it returns and the queue it leaves
detectTabbed(blocks) ==
    IF blocks = <<>> THEN [fn_blocks |-> <<>>, blocks |-> blocks]
    ELSE IF startswith(blocks[1], INDENT)
         THEN LET block == Head(blocks)
                  m == RE_search(block)
              IN IF m # <<>>
                 THEN LET before == rstrip(SubSeq(block, 1, m[1].start - 1), {"\n"})
                      IN [fn_blocks |-> <<detab(before)>>,
                          blocks |-> <<SubSeq(block, m[1].start, Len(block))>> \o Tail(blocks)]
                 ELSE LET r == detectTabbed(Tail(blocks))
                      IN [fn_blocks |-> <<detab(block)>> \o r.fn_blocks, blocks |-> r.blocks]
         ELSE [fn_blocks |-> <<>>, blocks |-> blocks]

\* FootnoteBlockProcessor.run putting the text before the marker behind the
\* fragment it pushed back first
BlockProcessorRun_behind(blocks, fn) ==
    LET block == Head(blocks)
        m == RE_search(block)
    IN IF m # <<>>
       THEN LET id == m[1].id
                therest == lstrip(SubSeq(block, m[1].end + 1, Len(block)), {"\n"})
                m2 == RE_search(therest)
                tabbed == detectTabbed(Tail(blocks))
                first == IF m2 # <<>>
                         THEN lstrip(join(NL, <<m[1].rest,
                                                detab(rstrip(SubSeq(therest, 1, m2[1].start - 1),
                                                             {"\n"}))>>), {"\n"})
                         ELSE strip(join(NL, <<m[1].rest, detab(therest)>>), {"\n"})
                fn_blocks == IF m2 # <<>> THEN <<first>> ELSE <<first>> \o tabbed.fn_blocks
                queued == IF m2 # <<>>
                          THEN <<SubSeq(therest, m2[1].start, Len(therest))>> \o Tail(blocks)
                          ELSE tabbed.blocks
                footnote == join(NL \o NL, fn_blocks)
                text == rstrip(footnote, Whitespace)
                pre == SubSeq(block, 1, m[1].start - 1)
            IN [ret |-> TRUE,
                blocks |-> IF strip(pre, Whitespace) # <<>>
                           THEN IF m2 # <<>>
                                THEN <<Head(queued), rstrip(pre, {"\n"})>> \o Tail(queued)
                                ELSE <<rstrip(pre, {"\n"})>> \o queued
                           ELSE queued,
                footnotes |-> setFootnote(fn, id, text),
                id |-> id, text |-> text]
       ELSE [ret |-> FALSE, blocks |-> <<block>> \o Tail(blocks), footnotes |-> fn,
             id |-> <<>>, text |-> <<>>]

\* the branch `if m:` of FootnoteBlockProcessor.run putting the whole block
\* back where the text before the marker goes
RunMatched_whole(blocks, fn, m, therest, m2, tabbed) ==
    LET block == Head(blocks)
        first == IF m2 # <<>>
                 THEN lstrip(join(NL, <<m.rest,
                                        detab(rstrip(SubSeq(therest, 1, m2[1].start - 1),
                                                     {"\n"}))>>), {"\n"})
                 ELSE strip(join(NL, <<m.rest, detab(therest)>>), {"\n"})
        queued == IF m2 # <<>>
                  THEN <<SubSeq(therest, m2[1].start, Len(therest))>> \o Tail(blocks)
                  ELSE tabbed.blocks
        footnote == join(NL \o NL, IF m2 # <<>> THEN <<first>>
                                   ELSE <<first>> \o tabbed.fn_blocks)
        pre == SubSeq(block, 1, m.start - 1)
    IN [ret |-> TRUE,
        blocks |-> IF strip(pre, Whitespace) # <<>>
                   THEN <<block>> \o queued
                   ELSE queued,
        footnotes |-> setFootnote(fn, m.id, rstrip(footnote, Whitespace)),
        id |-> m.id, text |-> rstrip(footnote, Whitespace)]

\* the branch `if m:` of FootnoteBlockProcessor.run from `if m2:` on: m is the
\* match in the block, therest the block after it, m2 = RE.search(therest),
\* tabbed what detectTabbed(blocks) gives (called when m2 is None)
RunMatched(blocks, fn, m, therest, m2, tabbed) ==
    LET block == Head(blocks)
        first == IF m2 # <<>>
                 THEN lstrip(join(NL, <<m.rest,
                                        detab(rstrip(SubSeq(therest, 1, m2[1].start - 1),
                                                     {"\n"}))>>), {"\n"})
                 ELSE strip(join(NL, <<m.rest, detab(therest)>>), {"\n"})
        queued == IF m2 # <<>>
                  THEN <<SubSeq(therest, m2[1].start, Len(therest))>> \o Tail(blocks)
                  ELSE tabbed.blocks
        footnote == join(NL \o NL, IF m2 # <<>> THEN <<first>>
                                   ELSE <<first>> \o tabbed.fn_blocks)
        pre == SubSeq(block, 1, m.start - 1)
    IN [ret |-> TRUE,
        blocks |-> IF strip(pre, Whitespace) # <<>>
                   THEN <<rstrip(pre, {"\n"})>> \o queued
                   ELSE queued,
        footnotes |-> setFootnote(fn, m.id, rstrip(footnote, Whitespace)),
        id |-> m.id, text |-> rstrip(footnote, Whitespace)]

\* the branch `if m:` of FootnoteBlockProcessor.run up to `if m2:`
RunMatch(blocks, fn, m, therest) ==
    RunMatched(blocks, fn, m, therest, RE_search(therest), detectTabbed(Tail(blocks)))

\* FootnoteBlockProcessor.run(parent, blocks) for a queue that is not empty:
\* what it returns, the queue and the definitions after it, and the id and
\* the text passed to setFootnote
BlockProcessorRun(blocks, fn) ==
    LET block == Head(blocks)
        m == RE_search(block)
    IN IF m # <<>>
       THEN RunMatch(blocks, fn, m[1],
                     lstrip(SubSeq(block, m[1].end + 1, Len(block)), {"\n"}))
       ELSE [ret |-> FALSE, blocks |-> <<block>> \o Tail(blocks), footnotes |-> fn,
             id |-> <<>>, text |-> <<>>]

-----------------------------------------------------------------------------
(* extendMarkdown: the tree processors and the order they run in *)

\* markdown.treeprocessors registers the inline processor at priority 20
InlineProcessor == [name |-> "inline", priority |-> 20]

\* extendMarkdown with 'footnote-duplicate' registered above the inline processor
extendMarkdown_early(cfg) ==
    {[name |-> "footnote", priority |-> 50]}
    \cup (IF ~cfg.USE_DEFINITION_ORDER
          THEN {[name |-> "footnote-reorder", priority |-> 19]}
          ELSE {})
    \cup {[name |-> "footnote-duplicate", priority |-> 25]}

extendMarkdown(cfg) ==
    {[name |-> "footnote", priority |-> 50]}
    \cup (IF ~cfg.USE_DEFINITION_ORDER
          THEN {[name |-> "footnote-reorder", priority |-> 19]}
          ELSE {})
    \cup {[name |-> "footnote-duplicate", priority |-> 15]}

TreeProcessors(cfg) == extendMarkdown(cfg) \cup {InlineProcessor}

\* the registry runs its processors from the highest priority to the lowest
FirstStage(cfg) ==
    (CHOOSE p \in TreeProcessors(cfg) :
        \A q \in TreeProcessors(cfg) : q.priority <= p.priority).name

NextStage(cfg, name) ==
    LET cur == CHOOSE p \in TreeProcessors(cfg) : p.name = name
        below == {p \in TreeProcessors(cfg) : p.priority < cur.priority}
    IN IF below = {} THEN "done"
       ELSE (CHOOSE p \in below : \A q \in below : q.priority <= p.priority).name

-----------------------------------------------------------------------------
(* The document tree *)

\* An element: its text and tail are sequences of words (<<>> for None), sub
\* holds its child elements; the <ol> of a footnote div is kept apart in ol.
Element(tag, text, tail, sub) ==
    [tag |-> tag, cls |-> "", text |-> text, tail |-> tail, built |-> FALSE,
     ol |-> <<>>, sub |-> sub]

Para(text, tail) == Element("p", text, tail, <<>>)

Item(hasid, id) == [hasid |-> hasid, id |-> id, kids |-> <<>>, links |-> <<>>]

\* a <div class="footnote"> with one <ol>
FootnoteDiv(built, items) ==
    [tag |-> "div", cls |-> "footnote", text |-> <<>>, tail |-> <<>>, built |-> built,
     ol |-> items, sub |-> <<>>]

\* Trees handed to the tree processors (the children of the root): without
\* the placeholder; with it as the text of a paragraph, after other words of a
\* paragraph, in a tail, inside a block quote, and both in the tail of an
\* element and inside it; with a <div class="footnote"> that comes from the
\* document itself, whose items have no id attribute or an id without the
\* separator.
Docs ==
    { <<Para(<<"Body">>, <<>>)>>,
      <<Para(<<PLACE_MARKER>>, <<>>), Para(<<"Body">>, <<>>)>>,
      <<FootnoteDiv(FALSE, <<Item(FALSE, <<>>)>>), Para(<<"Body">>, <<>>)>>,
      <<Para(<<"Body">>, <<PLACE_MARKER>>), FootnoteDiv(FALSE, <<Item(TRUE, <<"x">>)>>)>>,
      <<Para(<<"Body">>, <<>>),
        Element("blockquote", <<>>, <<>>,
                <<Para(<<"Quote">>, <<>>), Para(<<"See", PLACE_MARKER>>, <<"after">>)>>),
        Para(<<PLACE_MARKER>>, <<>>)>>,
      <<Element("blockquote", <<>>, <<"Body", PLACE_MARKER>>,
                <<Para(<<PLACE_MARKER>>, <<>>)>>),
        Para(<<"End">>, <<>>)>> }

\* parser.parseChunk(surrogate_parent, text): the tags of the children built
Render(text) ==
    CASE text = "" -> <<>>
      [] text = "Note." -> <<"p">>
      [] text = "* item" -> <<"ul">>

\* one pass of the loop of makeFootnotesDiv, made.ol the items appended so
\* far: the <ol> with the item of the key at position index appended, and
\* used_refs and found_refs after the call of makeFootnoteRefId(id) with
\* found=False
MakeItem(cfg, prefix, fn, index, made) ==
    LET id == fn[index].id
        kids == Render(fn[index].text)
        u == makeFootnoteRefId(cfg, prefix, id, FALSE, made.used, made.found_refs)
        backlink == [href |-> <<"#">> \o u.ref, title |-> index]
        li == IF Len(kids) > 0
              THEN IF kids[Len(kids)] = "p"
                   THEN [hasid |-> TRUE, id |-> makeFootnoteId(cfg, prefix, id),
                         kids |-> kids, links |-> <<backlink>>]
                   ELSE [hasid |-> TRUE, id |-> makeFootnoteId(cfg, prefix, id),
                         kids |-> Append(kids, "p"), links |-> <<backlink>>]
              ELSE [hasid |-> TRUE, id |-> makeFootnoteId(cfg, prefix, id),
                    kids |-> kids, links |-> <<>>]
    IN [ol |-> Append(made.ol, li), used |-> u.used, found_refs |-> u.found_refs]

RECURSIVE MakeItems(_, _, _, _, _)
\* the loop of makeFootnotesDiv from the key at position index on
MakeItems(cfg, prefix, fn, index, made) ==
    IF index > Len(fn) THEN made
    ELSE MakeItems(cfg, prefix, fn, index + 1, MakeItem(cfg, prefix, fn, index, made))

\* makeFootnotesDiv leaving out the definitions whose body renders to nothing
makeFootnotesDiv_nonempty(cfg, prefix, fn, used, frefs) ==
    LET r == MakeItems(cfg, prefix, fn, 1, [ol |-> <<>>, used |-> used, found_refs |-> frefs])
    IN [r EXCEPT !.ol = SelectSeq(r.ol, LAMBDA li : Len(li.kids) > 0)]

\* the <ol> of the div makeFootnotesDiv returns (no div when there are no
\* keys), and used_refs and found_refs after it
makeFootnotesDiv(cfg, prefix, fn, used, frefs) ==
    MakeItems(cfg, prefix, fn, 1, [ol |-> <<>>, used |-> used, found_refs |-> frefs])

\* text.find(PLACE_MARKER) > -1, for a text that is not None or empty
HasMarker(text) == \E i \in 1..Len(text) : text[i] = PLACE_MARKER

RECURSIVE finder(_)
\* finder(element) over the children of the element: <<path, isText>> with the
\* path of the matched child (the indices from the element down), <<>> for None
finder(element) ==
    LET hit(i) == \/ HasMarker(element[i].text)
                  \/ HasMarker(element[i].tail)
                  \/ finder(element[i].sub) # <<>>
        hits == {i \in 1..Len(element) : hit(i)}
    IN IF hits = {} THEN <<>>
       ELSE LET i == CHOOSE h \in hits : \A g \in hits : h <= g
            IN IF HasMarker(element[i].text) THEN << <<i>>, TRUE >>
               ELSE IF HasMarker(element[i].tail) THEN << <<i>>, FALSE >>
               ELSE LET child_res == finder(element[i].sub)
                    IN << <<i>> \o child_res[1], child_res[2] >>

findFootnotesPlaceholder(root) == finder(root)

InsertAt(s, i, x) == SubSeq(s, 1, i - 1) \o <<x>> \o SubSeq(s, i, Len(s))

RECURSIVE Splice(_, _, _, _)
\* the branch `if result:` of FootnoteTreeprocessor.run: the children of the
\* element after the div took the place of the matched child (text match) or
\* went in right after it, its tail set to None (tail match)
Splice(element, path, isText, div) ==
    IF Len(path) = 1
    THEN LET ind == path[1]
         IN IF isText
            THEN [element EXCEPT ![ind] = div]
            ELSE InsertAt([element EXCEPT ![ind].tail = <<>>], ind + 1, div)
    ELSE [element EXCEPT ![path[1]].sub = Splice(@, Tail(path), isText, div)]

\* FootnoteTreeprocessor.run spliced at the first child of the root whatever is found
TreeprocessorRun_first(cfg, prefix, fn, root, used, frefs) ==
    IF Len(fn) = 0 THEN [tree |-> root, used |-> used, found_refs |-> frefs]
    ELSE LET made == makeFootnotesDiv(cfg, prefix, fn, used, frefs)
             div == FootnoteDiv(TRUE, made.ol)
             result == findFootnotesPlaceholder(root)
         IN [tree |-> IF result # <<>>
                      THEN Splice(root, <<1>>, result[2], div)
                      ELSE Append(root, div),
             used |-> made.used,
             found_refs |-> made.found_refs]

\* FootnoteTreeprocessor.run from `if footnotesDiv is not None:` on: made is
\* what makeFootnotesDiv gave, result what findFootnotesPlaceholder(root) gave
InsertDiv(root, made, result) ==
    [tree |-> IF result # <<>>
              THEN Splice(root, result[1], result[2], FootnoteDiv(TRUE, made.ol))
              ELSE Append(root, FootnoteDiv(TRUE, made.ol)),
     used |-> made.used,
     found_refs |-> made.found_refs]

\* FootnoteTreeprocessor.run
TreeprocessorRun(cfg, prefix, fn, root, used, frefs) ==
    IF Len(fn) = 0 THEN [tree |-> root, used |-> used, found_refs |-> frefs]
    ELSE InsertDiv(root, makeFootnotesDiv(cfg, prefix, fn, used, frefs),
                   findFootnotesPlaceholder(root))

RECURSIVE Iter(_)
\* element.iter() without the element itself: the paths of its descendants in
\* document order
Iter(element) ==
    IF element = <<>> THEN <<>>
    ELSE LET n == Len(element)
             below == Iter(element[n].sub)
         IN Iter(SubSeq(element, 1, n - 1)) \o << <<n>> >>
              \o [k \in 1..Len(below) |-> <<n>> \o below[k]]

RECURSIVE NodeAt(_, _)
\* the descendant of the element at the path
NodeAt(element, path) ==
    IF Len(path) = 1 THEN element[path[1]]
    ELSE NodeAt(element[path[1]].sub, Tail(path))

RECURSIVE SetOl(_, _, _)
\* the children of the element, the <ol> of the div at the path replaced
SetOl(element, path, ol) ==
    IF Len(path) = 1 THEN [element EXCEPT ![path[1]].ol = ol]
    ELSE [element EXCEPT ![path[1]].sub = SetOl(@, Tail(path), ol)]

-----------------------------------------------------------------------------
(* FootnoteReorderingProcessor *)

\* li.attrib.get('id', '')
AttribId(li) == IF li.hasid THEN li.id ELSE <<>>

\* order_by_id(li) of reorder_footnotes
order_by_id(li, fn, order) ==
    LET parts == Split1(AttribId(li))
        id == parts[Len(parts)]
    IN IF InSeq(order, id) THEN IndexOf(order, id) - 1 ELSE Len(fn)

\* sorted(items, key=order_by_id): a stable sort
SortedItems(items, fn, order) ==
    LET key(i) == order_by_id(items[i], fn, order)
        rank(i) == Cardinality({j \in 1..Len(items) :
                                  key(j) < key(i) \/ (key(j) = key(i) /\ j < i)}) + 1
    IN [p \in 1..Len(items) |-> items[CHOOSE i \in 1..Len(items) : rank(i) = p]]

\* backlink.set("title", ...format(index)) on the first back-link of the item
SetTitle(li, index) ==
    [li EXCEPT !.links = [k \in 1..Len(li.links) |->
                            IF k = 1 THEN [li.links[k] EXCEPT !.title = index]
                            ELSE li.links[k]]]

\* the loop of reorder_footnotes over the sorted items
Reappend(div, items) ==
    LET bad == {i \in 1..Len(items) : Len(items[i].links) = 0}
    IN IF bad = {}
       THEN [div |-> [div EXCEPT !.ol = [i \in 1..Len(items) |-> SetTitle(items[i], i)]],
             error |-> "none"]
       ELSE [div |-> [div EXCEPT !.ol = [i \in 1..(Min(bad) - 1) |-> SetTitle(items[i], i)]],
             error |-> "AttributeError"]

\* reorder_footnotes(parent): the new <ol>; an item without a back-link ends
\* the loop with AttributeError (item.find returns None), the items before it
\* already appended
reorder_footnotes(div, fn, order) ==
    Reappend(div, SortedItems(div.ol, fn, order))

\* the divs of root.iter('div') with class 'footnote', in document order
FootnoteDivs(root) ==
    SelectSeq(Iter(root), LAMBDA p : NodeAt(root, p).tag = "div"
                                       /\ NodeAt(root, p).cls = "footnote")

\* FootnoteReorderingProcessor.run
ReorderingRun(fn, order, root) ==
    IF Len(fn) = 0 \/ order = Keys(fn) \/ FootnoteDivs(root) = <<>>
    THEN [tree |-> root, error |-> "none"]
    ELSE LET d == FootnoteDivs(root)[1]
             r == reorder_footnotes(NodeAt(root, d), fn, order)
         IN [tree |-> SetOl(root, d, r.div.ol), error |-> r.error]

-----------------------------------------------------------------------------
(* FootnotePostTreeprocessor *)

\* get_num_duplicates(li): -1 stands for the ValueError of unpacking a split
\* that gave one part
get_num_duplicates(li, frefs) ==
    LET parts == Split1(AttribId(li))
    IN IF Len(parts) # 2 THEN -1
       ELSE LET link_id == parts[1] \o <<"r", "e", "f">> \o <<get_separator>> \o parts[2]
            IN IF link_id \in DOMAIN frefs THEN frefs[link_id] ELSE 0

\* add_duplicates(li, duplicates)
add_duplicates(li, duplicates) ==
    IF Len(li.links) = 0 THEN [li |-> li, error |-> "none"]
    ELSE LET link == li.links[1]
             parts == Split1(link.href)
         IN IF Len(parts) # 2 THEN [li |-> li, error |-> "ValueError"]
            ELSE [li |-> [li EXCEPT !.links =
                            @ \o [k \in 1..(duplicates - 1) |->
                                    [link EXCEPT !.href = parts[1] \o Dec(k + 1)
                                                   \o <<get_separator>> \o parts[2]]]],
                  error |-> "none"]

RECURSIVE handle_duplicates(_, _, _)
\* handle_duplicates(parent), from item k on
handle_duplicates(ol, k, frefs) ==
    IF k > Len(ol) THEN [ol |-> ol, error |-> "none"]
    ELSE LET count == get_num_duplicates(ol[k], frefs)
         IN IF count = -1 THEN [ol |-> ol, error |-> "ValueError"]
            ELSE IF count > 1
                 THEN LET r == add_duplicates(ol[k], count)
                      IN IF r.error # "none" THEN [ol |-> ol, error |-> r.error]
                         ELSE handle_duplicates([ol EXCEPT ![k] = r.li], k + 1, frefs)
                 ELSE handle_duplicates(ol, k + 1, frefs)

RECURSIVE PostTreeRun(_, _, _)
\* FootnotePostTreeprocessor.run, from the d-th footnote div of the root on
PostTreeRun(root, d, frefs) ==
    IF d > Len(FootnoteDivs(root)) THEN [tree |-> root, error |-> "none"]
    ELSE LET p == FootnoteDivs(root)[d]
             r == handle_duplicates(NodeAt(root, p).ol, 1, frefs)
             t == SetOl(root, p, r.ol)
         IN IF r.error # "none" THEN [tree |-> t, error |-> r.error]
            ELSE PostTreeRun(t, d + 1, frefs)

-----------------------------------------------------------------------------
(* FootnoteInlineProcessor *)

\* handleMatch numbering a reference by the length of footnote_order
handleMatch_length(cfg, prefix, fn, order, used, frefs, id) ==
    IF id \in KeySet(fn)
    THEN LET order2 == addFootnoteRef(order, id)
             footnote_num == IF ~cfg.USE_DEFINITION_ORDER
                             THEN Len(order2)
                             ELSE IndexOf(Keys(fn), id)
             u == makeFootnoteRefId(cfg, prefix, id, TRUE, used, frefs)
         IN [node |-> <<[label |-> id,
                         id |-> u.ref,
                         href |-> <<"#">> \o makeFootnoteId(cfg, prefix, id),
                         text |-> footnote_num]>>,
             footnote_order |-> order2, used_refs |-> u.used, found_refs |-> u.found_refs]
    ELSE [node |-> <<>>, footnote_order |-> order, used_refs |-> used, found_refs |-> frefs]

\* handleMatch calling addFootnoteRef before it looks the label up
handleMatch_eager(cfg, prefix, fn, order, used, frefs, id) ==
    IF id \in KeySet(fn)
    THEN LET order2 == addFootnoteRef(order, id)
             footnote_num == IF ~cfg.USE_DEFINITION_ORDER
                             THEN IndexOf(order2, id)
                             ELSE IndexOf(Keys(fn), id)
             u == makeFootnoteRefId(cfg, prefix, id, TRUE, used, frefs)
         IN [node |-> <<[label |-> id,
                         id |-> u.ref,
                         href |-> <<"#">> \o makeFootnoteId(cfg, prefix, id),
                         text |-> footnote_num]>>,
             footnote_order |-> order2, used_refs |-> u.used, found_refs |-> u.found_refs]
    ELSE [node |-> <<>>, footnote_order |-> addFootnoteRef(order, id),
          used_refs |-> used, found_refs |-> frefs]

\* handleMatch(m, data) for the label id = m.group(1): the node returned
\* (<<>> for None) and the store after the call
handleMatch(cfg, prefix, fn, order, used, frefs, id) ==
    IF id \in KeySet(fn)
    THEN LET order2 == addFootnoteRef(order, id)
             footnote_num == IF ~cfg.USE_DEFINITION_ORDER
                             THEN IndexOf(order2, id)
                             ELSE IndexOf(Keys(fn), id)
             u == makeFootnoteRefId(cfg, prefix, id, TRUE, used, frefs)
         IN [node |-> <<[label |-> id,
                         id |-> u.ref,
                         href |-> <<"#">> \o makeFootnoteId(cfg, prefix, id),
                         text |-> footnote_num]>>,
             footnote_order |-> order2, used_refs |-> u.used, found_refs |-> u.found_refs]
    ELSE [node |-> <<>>, footnote_order |-> order, used_refs |-> used, found_refs |-> frefs]

\* reset() without the line that empties used_refs
reset_used(prefix, used, frefs) ==
    [footnote_order |-> <<>>, footnotes |-> <<>>, unique_prefix |-> prefix + 1,
     found_refs |-> <<>>, used_refs |-> used]

\* reset() without the line that increments unique_prefix
reset_prefix(prefix, used, frefs) ==
    [footnote_order |-> <<>>, footnotes |-> <<>>, unique_prefix |-> prefix,
     found_refs |-> <<>>, used_refs |-> {}]

\* reset()
reset(prefix, used, frefs) ==
    [footnote_order |-> <<>>, footnotes |-> <<>>, unique_prefix |-> prefix + 1,
     found_refs |-> <<>>, used_refs |-> {}]

-----------------------------------------------------------------------------
(* The extension object and one conversion at a time *)

Call(op, id, text, hit, ret) == [op |-> op, id |-> id, text |-> text, hit |-> hit, ret |-> ret]

NoLog == <<>>

\* __init__ sets unique_prefix to 0 and calls reset()
Construct ==
    /\ config \in [UNIQUE_IDS : BOOLEAN, USE_DEFINITION_ORDER : BOOLEAN]
    /\ unique_prefix = reset(0, {}, <<>>).unique_prefix
    /\ footnotes = reset(0, {}, <<>>).footnotes
    /\ footnote_order = reset(0, {}, <<>>).footnote_order
    /\ found_refs = reset(0, {}, <<>>).found_refs
    /\ used_refs = reset(0, {}, <<>>).used_refs
    /\ stage = "blocks"
    /\ ran = <<>>
    /\ tree = <<>>
    /\ refs = <<>>
    /\ error = "none"
    /\ last = Call("__init__", <<>>, "", FALSE, "None")
    /\ log = NoLog
    /\ prev = <<>>

Init ==
    /\ Construct
    /\ queue = <<>>

\* FootnoteBlockProcessor.run found a definition: setFootnote(id, text)
SetFootnote(id, text) ==
    /\ stage = "blocks"
    /\ footnotes' = setFootnote(footnotes, id, text)
    /\ last' = Call("setFootnote", id, text, id \in KeySet(footnotes), "None")
    /\ UNCHANGED <<queue, config, unique_prefix, footnote_order, found_refs, used_refs,
                   stage, ran, tree, refs, error>>

\* the block parser is done with the document; the tree processors start
EndBlocks(doc) ==
    /\ stage = "blocks"
    /\ tree' = doc
    /\ stage' = FirstStage(config)
    /\ last' = Call("parseDocument", <<>>, "", FALSE, "None")
    /\ UNCHANGED <<queue, config, unique_prefix, footnotes, footnote_order, found_refs,
                   used_refs, ran, refs, error>>

\* FootnoteTreeprocessor.run(root)
FootnoteTreeprocessor ==
    /\ stage = "footnote"
    /\ \E r \in {TreeprocessorRun(config, unique_prefix, footnotes, tree,
                                 used_refs, found_refs)} :
          /\ tree' = r.tree
          /\ used_refs' = r.used
          /\ found_refs' = r.found_refs
    /\ ran' = Append(ran, "footnote")
    /\ stage' = NextStage(config, "footnote")
    /\ last' = Call("FootnoteTreeprocessor.run", <<>>, "", Len(footnotes) > 0, "None")
    /\ UNCHANGED <<queue, config, unique_prefix, footnotes, footnote_order, refs, error>>

\* FootnoteInlineProcessor.handleMatch for a marker with label id
HandleMatch(id) ==
    /\ stage = "inline"
    /\ Len(refs) < MaxRefs
    /\ \E r \in {handleMatch(config, unique_prefix, footnotes, footnote_order,
                            used_refs, found_refs, id)} :
          /\ footnote_order' = r.footnote_order
          /\ used_refs' = r.used_refs
          /\ found_refs' = r.found_refs
          /\ refs' = refs \o r.node
          /\ last' = Call("handleMatch", id, "", id \in KeySet(footnotes),
                          IF r.node = <<>> THEN "None" ELSE "sup")
    /\ UNCHANGED <<queue, config, unique_prefix, footnotes, stage, ran, tree, error>>

\* the inline tree processor has visited every marker
EndInline ==
    /\ stage = "inline"
    /\ ran' = Append(ran, "inline")
    /\ stage' = NextStage(config, "inline")
    /\ last' = Call("InlineProcessor.run", <<>>, "", FALSE, "None")
    /\ UNCHANGED <<queue, config, unique_prefix, footnotes, footnote_order, found_refs,
                   used_refs, tree, refs, error>>

\* FootnoteReorderingProcessor.run(root)
FootnoteReorderingProcessor ==
    /\ stage = "footnote-reorder"
    /\ \E r \in {ReorderingRun(footnotes, footnote_order, tree)} :
          /\ tree' = r.tree
          /\ error' = r.error
          /\ IF r.error = "none"
             THEN /\ ran' = Append(ran, "footnote-reorder")
                  /\ stage' = NextStage(config, "footnote-reorder")
             ELSE /\ ran' = ran
                  /\ stage' = "error"
          /\ last' = Call("FootnoteReorderingProcessor.run", <<>>, "",
                          r.tree # tree, IF r.error = "none" THEN "None" ELSE r.error)
    /\ UNCHANGED <<queue, config, unique_prefix, footnotes, footnote_order, found_refs,
                   used_refs, refs>>

\* FootnotePostTreeprocessor.run(root)
FootnotePostTreeprocessor ==
    /\ stage = "footnote-duplicate"
    /\ \E r \in {PostTreeRun(tree, 1, found_refs)} :
          /\ tree' = r.tree
          /\ error' = r.error
          /\ IF r.error = "none"
             THEN /\ ran' = Append(ran, "footnote-duplicate")
                  /\ stage' = NextStage(config, "footnote-duplicate")
             ELSE /\ ran' = ran
                  /\ stage' = "error"
          /\ last' = Call("FootnotePostTreeprocessor.run", <<>>, "",
                          r.tree # tree, IF r.error = "none" THEN "None" ELSE r.error)
    /\ UNCHANGED <<queue, config, unique_prefix, footnotes, footnote_order, found_refs,
                   used_refs, refs>>

\* reset() between two conversions (or after one that raised)
Reset ==
    /\ unique_prefix < MaxPrefix
    /\ \E r \in {reset(unique_prefix, used_refs, found_refs)} :
          /\ footnote_order' = r.footnote_order
          /\ footnotes' = r.footnotes
          /\ unique_prefix' = r.unique_prefix
          /\ found_refs' = r.found_refs
          /\ used_refs' = r.used_refs
    /\ stage' = "blocks"
    /\ ran' = <<>>
    /\ tree' = <<>>
    /\ refs' = <<>>
    /\ error' = "none"
    /\ last' = Call("reset", <<>>, "", Len(footnotes) > 0 /\ used_refs # {}, "None")
    /\ UNCHANGED <<queue, config>>

Next ==
    \/ \E id \in Labels, text \in Texts : SetFootnote(id, text) /\ UNCHANGED hist
    \/ \E doc \in Docs : EndBlocks(doc) /\ UNCHANGED hist
    \/ FootnoteTreeprocessor /\ UNCHANGED hist
    \/ \E id \in Labels : HandleMatch(id) /\ UNCHANGED hist
    \/ EndInline /\ UNCHANGED hist
    \/ FootnoteReorderingProcessor /\ UNCHANGED hist
    \/ FootnotePostTreeprocessor /\ UNCHANGED hist
    \/ Reset /\ UNCHANGED hist

Spec == Init /\ [][Next]_vars

-----------------------------------------------------------------------------
(* Two renders on one instance, separated by reset().                       *)

Output == [refs |-> refs, tree |-> tree]

\* ids of the reference nodes and of the items of the built footnote list
AnchorIds(out) ==
    {out.refs[i].id : i \in 1..Len(out.refs)}
    \cup UNION {{NodeAt(out.tree, d).ol[k].id : k \in 1..Len(NodeAt(out.tree, d).ol)} :
                 d \in {Iter(out.tree)[e] : e \in {x \in 1..Len(Iter(out.tree)) :
                                                     NodeAt(out.tree, Iter(out.tree)[x]).built}}}

RenderDoc == <<Para(<<"Body">>, <<>>)>>

RenderText == "Note."

(* SpecRenders: any two renders; prev keeps the anchor ids of an earlier one. *)

InitRenders ==
    /\ Init
    /\ ~config.USE_DEFINITION_ORDER

\* reset() after a complete render; its anchor ids replace the ones kept, or
\* the ones kept stay
ResetRenders ==
    /\ stage = "done"
    /\ Reset
    /\ UNCHANGED log
    /\ \/ prev' = <<[ids |-> AnchorIds(Output)]>>
       \/ prev # <<>> /\ prev' = prev

NextRenders ==
    \/ \E id \in Labels : SetFootnote(id, RenderText) /\ UNCHANGED hist
    \/ EndBlocks(RenderDoc) /\ UNCHANGED hist
    \/ FootnoteTreeprocessor /\ UNCHANGED hist
    \/ \E id \in Labels : HandleMatch(id) /\ UNCHANGED hist
    \/ EndInline /\ UNCHANGED hist
    \/ FootnoteReorderingProcessor /\ UNCHANGED hist
    \/ FootnotePostTreeprocessor /\ UNCHANGED hist
    \/ ResetRenders

SpecRenders == InitRenders /\ [][NextRenders]_vars

(* SpecReplay: a render, reset(), and the same calls again; prev keeps the   *)
(* output of the first render and the calls still to repeat.                *)

Replaying == prev # <<>>

\* the call c is made: recorded in the first render, the next one due in the second
Replay(c) ==
    IF Replaying
    THEN /\ prev[1].todo # <<>>
         /\ Head(prev[1].todo) = c
         /\ prev' = <<[prev[1] EXCEPT !.todo = Tail(@)]>>
         /\ UNCHANGED log
    ELSE /\ log' = Append(log, c)
         /\ UNCHANGED prev

ReplaySetFootnote(id, text) ==
    /\ Replaying \/ Len(log) < MaxLogDefs
    /\ SetFootnote(id, text)
    /\ Replay(<<"setFootnote", id, text>>)

ReplayEndBlocks(doc) ==
    /\ EndBlocks(doc)
    /\ Replay(<<"parseDocument", doc>>)

ReplayHandleMatch(id) ==
    /\ Replaying \/ Cardinality({i \in 1..Len(log) : log[i][1] = "handleMatch"}) < MaxRefs
    /\ HandleMatch(id)
    /\ Replay(<<"handleMatch", id>>)

\* reset() after the first render, complete
ResetReplay ==
    /\ stage = "done"
    /\ ~Replaying
    /\ Reset
    /\ prev' = <<[out |-> Output, todo |-> log]>>
    /\ log' = NoLog

NextReplay ==
    \/ \E id \in Labels : ReplaySetFootnote(id, RenderText)
    \/ ReplayEndBlocks(RenderDoc)
    \/ FootnoteTreeprocessor /\ UNCHANGED hist
    \/ \E id \in Labels : ReplayHandleMatch(id)
    \/ EndInline /\ UNCHANGED hist
    \/ FootnoteReorderingProcessor /\ UNCHANGED hist
    \/ FootnotePostTreeprocessor /\ UNCHANGED hist
    \/ ResetReplay

SpecReplay == Init /\ [][NextReplay]_vars

-----------------------------------------------------------------------------
(* SpecBlocks: the block parser hands a queue of text blocks to             *)
(* FootnoteBlockProcessor.run until the queue is empty.                     *)

\* '[^label]:'
Marker(label) == <<"[", "^">> \o label \o <<"]", ":">>

\* Blocks of a source text, character by character:
\*   '[^a]: x '                      a definition, a space at the end of its line
\*   '[^a]:\n    y\nz'               an empty first line, an indented and a lazy line
\*   'p\n[^b:2]: x\n  y\n[^a]: z'   text before the marker, a second marker
\*   '    y\n    z '                 an indented block, a space at its end
\*   '    y\n[^b:2]: z'              an indented block that holds a marker
\*   'p'                             a paragraph
\*   '\n   [^a]: x'                  an empty line before a marker indented by three
\*   '    [^a]: x'                   a marker indented by four: no definition
\*   'q\n[^b:2]:'                    text before the marker, nothing after it
SourceBlocks ==
    { Marker(LabelA) \o <<" ", "x", " ">>,
      Marker(LabelA) \o NL \o INDENT \o <<"y">> \o NL \o <<"z">>,
      <<"p">> \o NL \o Marker(LabelB) \o <<" ", "x">> \o NL \o <<" ", " ", "y">>
          \o NL \o Marker(LabelA) \o <<" ", "z">>,
      INDENT \o <<"y">> \o NL \o INDENT \o <<"z", " ">>,
      INDENT \o <<"y">> \o NL \o Marker(LabelB) \o <<" ", "z">>,
      <<"p">>,
      NL \o <<" ", " ", " ">> \o Marker(LabelA) \o <<" ", "x">>,
      INDENT \o Marker(LabelA) \o <<" ", "x">>,
      <<"q">> \o NL \o Marker(LabelB) }

InitBlocks ==
    /\ Construct
    /\ ~config.UNIQUE_IDS
    /\ ~config.USE_DEFINITION_ORDER
    /\ queue \in UNION {[1..n -> SourceBlocks] : n \in 1..MaxBlocks}

\* the block parser has a block to hand to FootnoteBlockProcessor.run: the
\* queue is not empty and the head is not a block run has just declined
CanRun ==
    /\ stage = "blocks"
    /\ queue # <<>>
    /\ ~(last.op = "FootnoteBlockProcessor.run" /\ last.ret = "False")

\* the block parser calls FootnoteBlockProcessor.run on the queue
FootnoteBlockProcessor ==
    /\ CanRun
    /\ \E r \in {BlockProcessorRun(queue, footnotes)} :
          /\ queue' = r.blocks
          /\ footnotes' = r.footnotes
          /\ last' = Call("FootnoteBlockProcessor.run", r.id, "", r.ret,
                          IF r.ret THEN "True" ELSE "False")
    /\ UNCHANGED <<config, unique_prefix, footnote_order, found_refs, used_refs,
                   stage, ran, tree, refs, error>>

\* a block FootnoteBlockProcessor.run declined goes to the processors after
\* it, and one of them consumes it
OtherBlockProcessor ==
    /\ stage = "blocks"
    /\ last.op = "FootnoteBlockProcessor.run"
    /\ last.ret = "False"
    /\ queue' = Tail(queue)
    /\ last' = Call("BlockProcessor.run", <<>>, "", FALSE, "True")
    /\ UNCHANGED <<config, unique_prefix, footnotes, footnote_order, found_refs,
                   used_refs, stage, ran, tree, refs, error>>

NextBlocks ==
    \/ FootnoteBlockProcessor /\ UNCHANGED hist
    \/ OtherBlockProcessor /\ UNCHANGED hist

SpecBlocks == InitBlocks /\ [][NextBlocks]_vars

(* SpecTermination: the block parser works the queue off, then the inline   *)
(* processor meets the references; the tree is not built.                   *)

\* the queue is empty: the block parser is done, and FootnoteTreeprocessor
\* (priority 50) runs before the inline processor (priority 20); its calls of
\* makeFootnoteRefId pass found=False, so used_refs and found_refs stay
BeginInline ==
    /\ stage = "blocks"
    /\ queue = <<>>
    /\ stage' = NextStage(config, FirstStage(config))
    /\ ran' = Append(ran, FirstStage(config))
    /\ last' = Call("FootnoteTreeprocessor.run", <<>>, "", Len(footnotes) > 0, "None")
    /\ UNCHANGED <<queue, config, unique_prefix, footnotes, footnote_order, found_refs,
                   used_refs, tree, refs, error>>

NextTermination ==
    \/ FootnoteBlockProcessor /\ UNCHANGED hist
    \/ OtherBlockProcessor /\ UNCHANGED hist
    \/ BeginInline /\ UNCHANGED hist
    \/ \E id \in Labels : HandleMatch(id) /\ UNCHANGED hist

\* BlockParser.parseBlocks loops `while blocks:` and tries the processors in
\* turn, so a call that can be made on the queue is made: weak fairness of
\* both calls. run returns for every queue, so its call is enabled exactly
\* when CanRun holds, and weak fairness of it is written with CanRun.
SpecTermination ==
    /\ InitBlocks
    /\ [][NextTermination]_vars
    /\ ([]<>~CanRun) \/ ([]<><<FootnoteBlockProcessor /\ UNCHANGED hist>>_vars)
    /\ WF_vars(OtherBlockProcessor /\ UNCHANGED hist)

-----------------------------------------------------------------------------
(* Properties *)

\* the items of the list built by makeFootnotesDiv, as they are in the tree now
BuiltDivs == {Iter(tree)[e] : e \in {x \in 1..Len(Iter(tree)) : NodeAt(tree, Iter(tree)[x]).built}}

BuiltItems == UNION {{NodeAt(tree, d).ol[k] : k \in 1..Len(NodeAt(tree, d).ol)} : d \in BuiltDivs}

\* the reference nodes of this render that carry the label
RefsTo(label) == {i \in 1..Len(refs) : refs[i].label = label}

\* C1 (as claimed): at the end of a render every item of the built footnote
\* list belongs to a definition that some inline reference resolved; a
\* definition that was never referenced has no item.
C1_OnlyReferencedRendered ==
    stage = "done" =>
        \A li \in BuiltItems :
            \E label \in KeySet(footnotes) :
                /\ li.id = makeFootnoteId(config, unique_prefix, label)
                /\ RefsTo(label) # {}

\* C1 (amended): once the footnote list is built, it holds exactly one item for
\* every stored definition, referenced or not.
C1_EveryDefinitionRendered ==
    (InSeq(ran, "footnote") /\ error = "none" /\ Len(footnotes) > 0) =>
        /\ Cardinality(BuiltDivs) = 1
        /\ \A d \in BuiltDivs :
              /\ Len(NodeAt(tree, d).ol) = Len(footnotes)
              /\ {NodeAt(tree, d).ol[k].id : k \in 1..Len(NodeAt(tree, d).ol)}
                    = {makeFootnoteId(config, unique_prefix, label) : label \in KeySet(footnotes)}

C1_Witness ==
    /\ stage = "done"
    /\ \E label \in KeySet(footnotes) :
          /\ RefsTo(label) = {}
          /\ \E li \in BuiltItems : li.id = makeFootnoteId(config, unique_prefix, label)
    /\ refs # <<>>

\* the 1-based position of the label in the order of first references
FirstRefPosition(label) ==
    LET first == CHOOSE i \in RefsTo(label) : \A j \in RefsTo(label) : i <= j
    IN Cardinality({refs[j].label : j \in 1..first})

\* C2: under the order-by-reference policy every reference to a label shows
\* the 1-based position of the label in the order of first references, so all
\* references to one label show the same number.
C2_ReferenceNumbering ==
    ~config.USE_DEFINITION_ORDER =>
        \A i \in 1..Len(refs) : refs[i].text = FirstRefPosition(refs[i].label)

C2_Witness ==
    /\ ~config.USE_DEFINITION_ORDER
    /\ Keys(footnotes) = <<LabelB, LabelA>>
    /\ [i \in 1..Len(refs) |-> refs[i].label] = <<LabelA, LabelB, LabelA>>
    /\ [i \in 1..Len(refs) |-> refs[i].text] = <<1, 2, 1>>

\* C3 (as claimed): at the end of the pipeline the item of every label
\* referenced n >= 1 times holds exactly n back-links, with pairwise distinct
\* hrefs, which are exactly '#' + the anchor ids of the n reference nodes.
C3_BacklinksMatchReferences ==
    stage = "done" =>
        \A label \in KeySet(footnotes) :
            RefsTo(label) # {} =>
                \E li \in BuiltItems :
                    /\ li.id = makeFootnoteId(config, unique_prefix, label)
                    /\ Len(li.links) = Cardinality(RefsTo(label))
                    /\ \A j, k \in 1..Len(li.links) :
                          li.links[j].href = li.links[k].href => j = k
                    /\ {li.links[k].href : k \in 1..Len(li.links)}
                          = {<<"#">> \o refs[i].id : i \in RefsTo(label)}

\* C4: a step that is not reset() keeps the definitions in the order of first
\* definition: setFootnote of a new id appends it, setFootnote of a stored id
\* replaces its text in place, and no other step changes the definitions.
C4_DefinitionOrder ==
    [][unique_prefix' = unique_prefix =>
          IF last'.op = "setFootnote"
          THEN /\ Keys(footnotes') = IF last'.id \in KeySet(footnotes)
                                     THEN Keys(footnotes)
                                     ELSE Append(Keys(footnotes), last'.id)
               /\ \A i \in 1..Len(footnotes') :
                     footnotes'[i].text = IF footnotes'[i].id = last'.id
                                          THEN last'.text
                                          ELSE footnotes[i].text
          ELSE footnotes' = footnotes]_vars

C4_Witness ==
    /\ last.op = "setFootnote"
    /\ last.hit
    /\ Len(footnotes) = 2
    /\ footnotes[1].id = last.id
    /\ footnotes[1].text = last.text
    /\ footnotes[2].text # last.text

\* C5: with UNIQUE_IDS off, a render repeated call by call after reset() ends
\* with the same reference nodes and the same tree as the first render.
C5_ResetRepeatsRender ==
    (~config.UNIQUE_IDS /\ Replaying /\ stage = "done") =>
        (prev[1].todo = <<>> => Output = prev[1].out)

C5_Witness ==
    /\ ~config.UNIQUE_IDS
    /\ Replaying
    /\ stage = "done"
    /\ prev[1].todo = <<>>
    /\ Len(footnotes) = 2
    /\ footnote_order # Keys(footnotes)
    /\ \E label \in Labels : Cardinality(RefsTo(label)) >= 2

\* C6: with UNIQUE_IDS on, no anchor id of the current render is an anchor id
\* of a render that a reset() separates from it.
C6_RendersDisjoint ==
    (config.UNIQUE_IDS /\ prev # <<>>) => AnchorIds(Output) \cap prev[1].ids = {}

C6_Witness ==
    /\ config.UNIQUE_IDS
    /\ prev # <<>>
    /\ stage = "done"
    /\ Cardinality(prev[1].ids) >= 4
    /\ Cardinality(AnchorIds(Output)) >= 4
    /\ unique_prefix = 3

\* C7: a handleMatch for a label that is not a key of the definitions returns
\* no node and changes none of the five structures.
C7_UnknownLabelDeclined ==
    [][(last'.op = "handleMatch" /\ last'.id \notin KeySet(footnotes)) =>
          /\ last'.ret = "None"
          /\ refs' = refs
          /\ UNCHANGED store]_vars

C7_Witness ==
    /\ last.op = "handleMatch"
    /\ last.ret = "None"
    /\ ~last.hit
    /\ Len(footnotes) > 0
    /\ refs # <<>>

\* C8: reset() empties the definitions, the reference order, the used ids and
\* the found-refs counter and adds 1 to the session prefix; no other step
\* changes the session prefix.
C8_Reset ==
    [][IF last'.op = "reset"
       THEN /\ footnotes' = <<>>
            /\ footnote_order' = <<>>
            /\ used_refs' = {}
            /\ DOMAIN found_refs' = {}
            /\ unique_prefix' = unique_prefix + 1
       ELSE unique_prefix' = unique_prefix]_vars

C8_Witness ==
    /\ last.op = "reset"
    /\ last.hit
    /\ unique_prefix = 3
    /\ footnotes = <<>>
    /\ used_refs = {}

\* C9 (as claimed): the splice of the footnote list begins only after the
\* inline stage has resolved every reference.
C9_InlineBeforeSplice ==
    (stage = "footnote" \/ InSeq(ran, "footnote")) => InSeq(ran, "inline")

\* C9 (amended): the splice is complete before the inline stage resolves any
\* reference; the inline stage is complete before the reorder begins; the
\* duplicate augmentation begins after the inline stage and, when the reorder
\* is registered, after the reorder.
C9_StageOrder ==
    /\ (stage = "inline" \/ InSeq(ran, "inline") \/ refs # <<>>) => InSeq(ran, "footnote")
    /\ (stage = "footnote-reorder" \/ InSeq(ran, "footnote-reorder")) => InSeq(ran, "inline")
    /\ (stage = "footnote-duplicate" \/ InSeq(ran, "footnote-duplicate")) =>
          /\ InSeq(ran, "inline")
          /\ ~config.USE_DEFINITION_ORDER => InSeq(ran, "footnote-reorder")

C9_Witness ==
    /\ stage = "done"
    /\ ran = <<"footnote", "inline", "footnote-reorder", "footnote-duplicate">>
    /\ Len(refs) >= 2
    /\ footnote_order # Keys(footnotes)

\* C10 (as claimed): the duplicate lookup never raises; an item whose id is
\* missing, empty or without the separator counts as having no duplicates.
C10_DuplicateLookupNeverRaises ==
    ~(last.op = "FootnotePostTreeprocessor.run" /\ last.ret = "ValueError")

\* C11 (as claimed): right after the footnote list is built, the item of every
\* definition holds exactly one back-link, whose href is '#' + the
\* non-disambiguated reference id of its label, whatever the body renders to;
\* the last child of the item is then a paragraph.
C11_EveryItemHasBacklink ==
    last.op = "FootnoteTreeprocessor.run" =>
        \A label \in KeySet(footnotes) :
            \A li \in BuiltItems :
                li.id = makeFootnoteId(config, unique_prefix, label) =>
                    /\ Len(li.links) = 1
                    /\ li.links[1].href
                          = <<"#">> \o makeFootnoteRefId(config, unique_prefix, label,
                                                         FALSE, used_refs, found_refs).ref
                    /\ li.kids # <<>>
                    /\ li.kids[Len(li.kids)] = "p"

\* the anchor id the k-th reference to the label is to carry
KthRefId(label, k) ==
    LET base == RefBase(config, unique_prefix, label)
    IN IF k = 1 THEN base
       ELSE FNREF \o Dec(k) \o SubSeq(base, Len(FNREF) + 1, Len(base))

\* C16: within one render the reference nodes carry pairwise distinct anchor
\* ids, all references to one label carry the same href, the first reference
\* to a label carries the plain reference id and the k-th (k >= 2) carries it
\* with the number k inserted directly after 'fnref'.
C16_ReferenceIds ==
    /\ \A i, j \in 1..Len(refs) : refs[i].id = refs[j].id => i = j
    /\ \A i, j \in 1..Len(refs) : refs[i].label = refs[j].label => refs[i].href = refs[j].href
    /\ \A i \in 1..Len(refs) :
          refs[i].id = KthRefId(refs[i].label,
                                Cardinality({j \in RefsTo(refs[i].label) : j <= i}))

C16_Witness ==
    /\ config.UNIQUE_IDS
    /\ unique_prefix = 2
    /\ [i \in 1..Len(refs) |-> refs[i].label] = <<LabelB, LabelB, LabelB>>
    /\ refs[3].id = <<"f", "n", "r", "e", "f", "3", ":", "2", "-", "b", ":", "2">>

\* C17: for every label, found_refs holds under the plain reference id of the
\* label the number of references to it resolved since the last reset() (no
\* entry when there is none), and used_refs holds exactly one id for every
\* resolved reference.
C17_Counters ==
    /\ \A label \in Labels :
          LET base == RefBase(config, unique_prefix, label)
          IN IF RefsTo(label) = {}
             THEN base \notin DOMAIN found_refs
             ELSE /\ base \in DOMAIN found_refs
                  /\ found_refs[base] = Cardinality(RefsTo(label))
    /\ used_refs = {refs[i].id : i \in 1..Len(refs)}
    /\ Cardinality(used_refs) = Len(refs)

C17_Witness ==
    /\ Len(refs) = 3
    /\ Cardinality(RefsTo(LabelA)) = 2
    /\ found_refs[RefBase(config, unique_prefix, LabelA)] = 2
    /\ found_refs[RefBase(config, unique_prefix, LabelB)] = 1
    /\ Cardinality(used_refs) = 3

\* C18: the reference order, the used ids and the found-refs counter are
\* changed only by handleMatch for a known label and by reset(); storing a
\* definition, building and splicing the footnote list, the reorder and the
\* duplicate augmentation leave the three unchanged.
C18_ReferenceStateFrame ==
    [][(last'.op \notin {"handleMatch", "reset"} \/ (last'.op = "handleMatch" /\ ~last'.hit))
          => UNCHANGED <<footnote_order, used_refs, found_refs>>]_vars

C18_Witness ==
    /\ stage = "done"
    /\ ran = <<"footnote", "inline", "footnote-reorder", "footnote-duplicate">>
    /\ last.op = "FootnotePostTreeprocessor.run"
    /\ last.hit
    /\ Len(footnote_order) = 2
    /\ Cardinality(used_refs) = 3
    /\ footnote_order # Keys(footnotes)

\* C19: in every reachable state the reference order holds no id twice, only
\* keys of the definitions, and no more ids than there are definitions, and
\* addFootnoteRef applied twice with one id gives what one application gives;
\* a step that is not reset() leaves the reference order as it is or appends
\* to it.
C19_ReferenceOrder ==
    /\ [](/\ \A i, j \in 1..Len(footnote_order) :
                footnote_order[i] = footnote_order[j] => i = j
          /\ \A i \in 1..Len(footnote_order) : footnote_order[i] \in KeySet(footnotes)
          /\ Len(footnote_order) <= Len(footnotes)
          /\ \A id \in Labels :
                addFootnoteRef(addFootnoteRef(footnote_order, id), id)
                   = addFootnoteRef(footnote_order, id))
    /\ [][last'.op # "reset" =>
             /\ Len(footnote_order') >= Len(footnote_order)
             /\ SubSeq(footnote_order', 1, Len(footnote_order)) = footnote_order]_vars

C19_Witness ==
    /\ footnote_order = <<LabelB, LabelA>>
    /\ Keys(footnotes) = <<LabelA, LabelB>>
    /\ [i \in 1..Len(refs) |-> refs[i].label] = <<LabelB, LabelA, LabelB>>
    /\ last.op = "handleMatch"

\* the ids of the items of the built footnote list, in list order
BuiltListIds ==
    LET d == CHOOSE e \in BuiltDivs : TRUE
    IN [k \in 1..Len(NodeAt(tree, d).ol) |-> NodeAt(tree, d).ol[k].id]

\* the keys of the definitions no reference has resolved, in definition order
Unreferenced == SelectSeq(Keys(footnotes), LAMBDA id : ~InSeq(footnote_order, id))

\* C14 (as claimed): under the order-by-reference policy, when the reference
\* order differs from the definition order, the footnote list after the
\* reorder holds the items of the referenced labels in the order of first
\* reference, followed by the items of the unreferenced labels in definition
\* order, with UNIQUE_IDS off and on.
C14_ListInReferenceOrder ==
    (/\ ~config.USE_DEFINITION_ORDER
     /\ InSeq(ran, "footnote-reorder")
     /\ footnote_order # Keys(footnotes)
     /\ BuiltDivs # {}) =>
        BuiltListIds = [k \in 1..Len(footnotes) |->
                          makeFootnoteId(config, unique_prefix,
                                         (footnote_order \o Unreferenced)[k])]

\* C15 (as claimed): at the end of the pipeline the title of every back-link
\* of a referenced footnote carries the number its inline references display,
\* under both ordering policies, with UNIQUE_IDS on or off.
C15_TitlesMatchNumbers ==
    stage = "done" =>
        \A i \in 1..Len(refs) :
            \A li \in BuiltItems :
                li.id = makeFootnoteId(config, unique_prefix, refs[i].label) =>
                    \A k \in 1..Len(li.links) : li.links[k].title = refs[i].text

\* the elements of a tree in document order, each with its depth and without
\* its children
Flat(t) ==
    [k \in 1..Len(Iter(t)) |->
        [node |-> [NodeAt(t, Iter(t)[k]) EXCEPT !.sub = <<>>], depth |-> Len(Iter(t)[k])]]

\* the first placeholder in the order of the search: the elements in document
\* order, the text of an element before its tail, both before what is inside
\* it; <<k, isText>> with k the position in document order, <<>> when there is none
FirstPlaceholder(t) ==
    LET cands == {c \in (1..Len(Iter(t))) \X BOOLEAN :
                    HasMarker(IF c[2] THEN NodeAt(t, Iter(t)[c[1]]).text
                              ELSE NodeAt(t, Iter(t)[c[1]]).tail)}
        rank(c) == 2 * c[1] + (IF c[2] THEN 0 ELSE 1)
    IN IF cands = {} THEN <<>>
       ELSE CHOOSE c \in cands : \A d \in cands : rank(c) <= rank(d)

IsContainer(e) ==
    /\ e.node.built
    /\ e.node.tag = "div"
    /\ e.node.cls = "footnote"
    /\ e.node.text = <<>>
    /\ e.node.tail = <<>>

\* C12: FootnoteTreeprocessor.run leaves the tree as it is when no definition
\* is stored, placeholder or not; with a definition stored it adds exactly one
\* footnote container: in the place of the element whose text holds the first
\* placeholder found, or right after the element whose tail holds it, that
\* tail cleared, or as the last child of the root when there is no
\* placeholder; all other elements stay, in their order and at their depth.
C12_Splice ==
    [][(stage = "footnote" /\ last'.op = "FootnoteTreeprocessor.run") =>
          IF Len(footnotes) = 0 THEN tree' = tree
          ELSE LET old == Flat(tree)
                   new == Flat(tree')
                   found == FirstPlaceholder(tree)
               IN /\ Cardinality({k \in 1..Len(new) : new[k].node.built}) = 1
                  /\ IF found = <<>>
                     THEN /\ Len(new) = Len(old) + 1
                          /\ SubSeq(new, 1, Len(old)) = old
                          /\ IsContainer(new[Len(new)])
                          /\ new[Len(new)].depth = 1
                     ELSE LET k == found[1]
                              m == Len(Iter(NodeAt(tree, Iter(tree)[k]).sub))
                          IN IF found[2]
                             THEN /\ Len(new) = Len(old) - m
                                  /\ IsContainer(new[k])
                                  /\ new[k].depth = old[k].depth
                                  /\ SubSeq(new, 1, k - 1) = SubSeq(old, 1, k - 1)
                                  /\ SubSeq(new, k + 1, Len(new))
                                        = SubSeq(old, k + m + 1, Len(old))
                             ELSE /\ Len(new) = Len(old) + 1
                                  /\ IsContainer(new[k + m + 1])
                                  /\ new[k + m + 1].depth = old[k].depth
                                  /\ new[k] = [old[k] EXCEPT !.node.tail = <<>>]
                                  /\ SubSeq(new, 1, k - 1) = SubSeq(old, 1, k - 1)
                                  /\ SubSeq(new, k + 1, k + m) = SubSeq(old, k + 1, k + m)
                                  /\ SubSeq(new, k + m + 2, Len(new))
                                        = SubSeq(old, k + m + 1, Len(old))]_vars

\* the container went in inside a block quote, in the place of the paragraph
\* that held the placeholder after another word
C12_Witness ==
    /\ last.op = "FootnoteTreeprocessor.run"
    /\ last.hit
    /\ \E p \in BuiltDivs : Len(p) = 2 /\ p[2] = 2
    /\ HasMarker(tree[3].text)
    /\ Len(footnotes) = 2

(* Definition extraction, told line by line *)

Lines(block) == split(block, "\n")

\* the line is a marker line: up to three spaces, '[^', a label without ']', ']:'
MarkerLine(line) ==
    \E n \in 0..3 : \E c \in (n + 3)..(Len(line) - 1) :
        /\ \A k \in 1..n : line[k] = " "
        /\ line[n + 1] = "["
        /\ line[n + 2] = "^"
        /\ \A k \in (n + 3)..(c - 1) : line[k] # "]"
        /\ line[c] = "]"
        /\ line[c + 1] = ":"

\* the position of the first marker line among the lines, 0 when there is none
FirstMarker(lines) ==
    IF \E k \in 1..Len(lines) : MarkerLine(lines[k])
    THEN CHOOSE k \in 1..Len(lines) :
            MarkerLine(lines[k]) /\ \A j \in 1..(k - 1) : ~MarkerLine(lines[j])
    ELSE 0

\* the label of a marker line, and what follows the marker and its spaces
MarkerLabel(line) ==
    LET open == CHOOSE k \in 1..Len(line) : line[k] = "[" /\ \A j \in 1..(k - 1) : line[j] = " "
        close == CHOOSE k \in 1..Len(line) : line[k] = "]" /\ \A j \in 1..(k - 1) : line[j] # "]"
    IN SubSeq(line, open + 2, close - 1)

MarkerText(line) ==
    LET close == CHOOSE k \in 1..Len(line) : line[k] = "]" /\ \A j \in 1..(k - 1) : line[j] # "]"
        text == {k \in (close + 2)..Len(line) : line[k] # " "}
    IN IF text = {} THEN <<>>
       ELSE SubSeq(line, CHOOSE k \in text : \A j \in text : k <= j, Len(line))

\* the lines without the empty lines at their start, at their end
DropLeadingEmpty(lines) ==
    LET full == {k \in 1..Len(lines) : lines[k] # <<>>}
    IN IF full = {} THEN <<>>
       ELSE SubSeq(lines, CHOOSE k \in full : \A j \in full : k <= j, Len(lines))

DropTrailingEmpty(lines) ==
    LET full == {k \in 1..Len(lines) : lines[k] # <<>>}
    IN IF full = {} THEN <<>>
       ELSE SubSeq(lines, 1, CHOOSE k \in full : \A j \in full : j <= k)

\* one indent of four spaces taken off every line that has it
Dedent(lines) ==
    [k \in 1..Len(lines) |->
        IF Len(lines[k]) >= 4 /\ \A j \in 1..4 : lines[k][j] = " "
        THEN SubSeq(lines[k], 5, Len(lines[k]))
        ELSE lines[k]]

Begins4(block) == Len(block) >= 4 /\ \A j \in 1..4 : block[j] = " "

\* the lines that follow the first marker line in its block
Continuation(block) ==
    LET lines == Lines(block)
    IN DropLeadingEmpty(SubSeq(lines, FirstMarker(lines) + 1, Len(lines)))

\* the head of the queue holds a marker and no second one after it
OneMarkerHead ==
    /\ queue # <<>>
    /\ FirstMarker(Lines(Head(queue))) > 0
    /\ FirstMarker(Continuation(Head(queue))) = 0

RECURSIVE Consumed(_)
\* the number of queued blocks the definition takes, the last one in part
\* when it holds a marker
Consumed(q) ==
    IF q = <<>> THEN 0
    ELSE IF ~Begins4(Head(q)) THEN 0
    ELSE IF FirstMarker(Lines(Head(q))) > 0 THEN 1
    ELSE 1 + Consumed(Tail(q))

\* the lines of the k-th queued block that the definition takes
ConsumedLines(q, k) ==
    LET lines == Lines(q[k])
        mark == FirstMarker(lines)
    IN IF mark = 0 THEN lines
       ELSE DropTrailingEmpty(SubSeq(lines, 1, mark - 1))

\* the queued blocks that are left, the one cut at its marker first
LeftQueued(q) ==
    LET n == Consumed(q)
    IN IF n > 0 /\ FirstMarker(Lines(q[n])) > 0
       THEN <<join(NL, SubSeq(Lines(q[n]), FirstMarker(Lines(q[n])), Len(Lines(q[n]))))>>
               \o SubSeq(q, n + 1, Len(q))
       ELSE SubSeq(q, n + 1, Len(q))

\* the body as claimed: the first line and the continuation in the block, then
\* every consumed block, each without one indent per line, joined by blank lines
JoinedBody(q) ==
    LET lines == Lines(Head(q))
        first == DropTrailingEmpty(DropLeadingEmpty(
                    <<MarkerText(lines[FirstMarker(lines)])>> \o Dedent(Continuation(Head(q)))))
    IN join(NL \o NL,
            <<join(NL, first)>>
              \o [k \in 1..Consumed(Tail(q)) |-> join(NL, Dedent(ConsumedLines(Tail(q), k)))])

StoredText(fn, label) == fn[IndexOf(Keys(fn), label)].text

\* the definition taken from the head of the queue is stored with the body
\* given, and the queued blocks it did not take are the end of the queue
ExtractedAs(body) ==
    LET label == MarkerLabel(Lines(Head(queue))[FirstMarker(Lines(Head(queue)))])
        left == LeftQueued(Tail(queue))
    IN /\ last'.ret = "True"
       /\ label \in KeySet(footnotes')
       /\ StoredText(footnotes', label) = body
       /\ Len(queue') \in {Len(left), Len(left) + 1}
       /\ SubSeq(queue', Len(queue') - Len(left) + 1, Len(queue')) = left

\* C13 (as claimed): when the block holds no second marker, run takes the
\* queued blocks that follow while each begins with four spaces, up to the
\* first that holds a marker, of which it takes the part before the marker
\* and pushes the rest back; the body stored is the first line and the
\* continuation in the block, then each block taken, each without one indent
\* of four spaces per line, joined by blank lines.
C13_BodyJoined ==
    [][(last'.op = "FootnoteBlockProcessor.run" /\ OneMarkerHead)
          => ExtractedAs(JoinedBody(queue))]_vars

\* the text without the spaces, tabs and newlines at its end
TrimEnd(s) ==
    IF \A k \in 1..Len(s) : s[k] \in {" ", "\t", "\n"} THEN <<>>
    ELSE SubSeq(s, 1, CHOOSE k \in 1..Len(s) :
                         /\ s[k] \notin {" ", "\t", "\n"}
                         /\ \A j \in (k + 1)..Len(s) : s[j] \in {" ", "\t", "\n"})

\* C13 (amended): as C13, the body stored being the joined text without the
\* whitespace at its end.
C13_BodyJoinedTrimmed ==
    [][(last'.op = "FootnoteBlockProcessor.run" /\ OneMarkerHead)
          => ExtractedAs(TrimEnd(JoinedBody(queue)))]_vars

\* an unindented first line, then a block indented by four spaces whose end
\* is a space: one body of two paragraphs, and a paragraph left in the queue
C13_Witness ==
    /\ last.op = "FootnoteBlockProcessor.run"
    /\ last.ret = "True"
    /\ footnotes = <<[id |-> LabelA, text |-> <<"x", " ", "\n", "\n", "y", "\n", "z">>]>>
    /\ queue = << <<"p">> >>

\* the text before the first marker line of the block, as a block of its own
TextBefore(block) ==
    LET lines == Lines(block)
    IN join(NL, DropTrailingEmpty(SubSeq(lines, 1, FirstMarker(lines) - 1)))

\* the blocks behind the text before the marker after run took a definition
\* from the head of the queue q: the fragment from a later marker on, when
\* there is one, and the blocks that were queued and not taken
BehindTextBefore(q) ==
    LET cont == Continuation(Head(q))
    IN IF FirstMarker(cont) > 0
       THEN <<join(NL, SubSeq(cont, FirstMarker(cont), Len(cont)))>> \o Tail(q)
       ELSE LeftQueued(Tail(q))

\* C20: when run finds a marker in the block, the text before the first marker
\* goes back to the front of the queue as a block of its own if and only if
\* it holds a character that is not whitespace, ahead of the fragment that
\* starts at a later marker, which is ahead of the blocks that were queued;
\* when run finds no marker the queue and the definitions stay as they are
\* and run returns False.
C20_Requeue ==
    [][last'.op = "FootnoteBlockProcessor.run" =>
          IF FirstMarker(Lines(Head(queue))) = 0
          THEN /\ queue' = queue
               /\ footnotes' = footnotes
               /\ last'.ret = "False"
          ELSE /\ last'.ret = "True"
               /\ queue' = (IF \E k \in 1..Len(TextBefore(Head(queue))) :
                                  TextBefore(Head(queue))[k] \notin {" ", "\t", "\n"}
                            THEN <<TextBefore(Head(queue))>>
                            ELSE <<>>)
                             \o BehindTextBefore(queue)]_vars

\* 'p\n[^b:2]: x\n  y\n[^a]: z' before a queued paragraph: the text before
\* the marker, the fragment from the second marker on, the queued paragraph
C20_Witness ==
    /\ last.op = "FootnoteBlockProcessor.run"
    /\ last.ret = "True"
    /\ last.id = LabelB
    /\ queue = << <<"p">>, Marker(LabelA) \o <<" ", "z">>, <<"p">> >>

-----------------------------------------------------------------------------
(* Termination of the extraction *)

RECURSIVE TotalText(_)
\* the number of characters in the blocks of the queue q
TotalText(q) == IF q = <<>> THEN 0 ELSE Len(Head(q)) + TotalText(Tail(q))

\* run took a definition from the head of the queue in this step
Handled == last'.op = "FootnoteBlockProcessor.run" /\ last'.ret = "True"

\* the queue after a handled call is at most two fragments, each strictly
\* shorter than the block taken, ahead of blocks that were queued behind it,
\* the first of which may have lost its beginning
OnlyShorterPushedBack ==
    \E p \in 0..2 :
        /\ p <= Len(queue')
        /\ \A k \in 1..p : Len(queue'[k]) < Len(Head(queue))
        /\ Len(queue') - p <= Len(queue) - 1
        /\ \A k \in (p + 1)..Len(queue') :
              \/ queue'[k] = queue[k + Len(queue) - Len(queue')]
              \/ /\ k = p + 1
                 /\ Len(queue'[k]) < Len(queue[k + Len(queue) - Len(queue')])

\* the text before the marker holds a character that is not whitespace
HasTextBefore(block) ==
    \E k \in 1..Len(TextBefore(block)) : TextBefore(block)[k] \notin Whitespace

\* detectTabbed on the queue q: every pass of its loop that does not end it
\* at once takes one block off the queue and adds one to the list returned;
\* the pass that finds a marker puts the block back without its beginning
TabbedProgress(q) ==
    /\ Len(detectTabbed(q).fn_blocks) <= Len(q)
    /\ Len(detectTabbed(q).fn_blocks) + Len(detectTabbed(q).blocks) \in {Len(q), Len(q) + 1}
    /\ IF detectTabbed(q).fn_blocks = <<>>
       THEN detectTabbed(q).blocks = q
       ELSE TotalText(detectTabbed(q).blocks) < TotalText(q)

\* C21: every call of run that takes a definition leaves strictly less text
\* in the queue, pushing back only fragments strictly shorter than the block
\* it took; the text it pushes back from before the marker is declined by
\* the next call; every pass of the loop of detectTabbed that goes on takes a
\* block off the queue or shortens it; the loop of unique_ref takes at most
\* as many iterations as there are used ids; and, a declined block being
\* consumed by another processor, the queue is eventually empty.
C21_Termination ==
    /\ [][Handled =>
            /\ TotalText(queue') < TotalText(queue)
            /\ OnlyShorterPushedBack
            /\ TabbedProgress(Tail(queue))
            /\ HasTextBefore(Head(queue)) =>
                  /\ queue'[1] = TextBefore(Head(queue))
                  /\ ~BlockProcessorRun(queue', footnotes').ret]_vars
    /\ [][(last'.op = "handleMatch" /\ last'.hit) =>
            WhileUsed(RefBase(config, unique_prefix, last'.id), used_refs, 0).iterations
                <= Cardinality(used_refs)]_vars
    /\ <>(queue = <<>>)

\* 'p\n[^b:2]: x\n  y\n[^a]: z' was worked off (the paragraph pushed back and
\* declined, the fragment from the second marker on taken next), the queue
\* is empty, and the third reference to the same label took two iterations
C21_Witness ==
    /\ queue = <<>>
    /\ stage = "inline"
    /\ footnotes = <<[id |-> LabelB, text |-> <<"x", "\n", " ", " ", "y">>],
                     [id |-> LabelA, text |-> <<"z">>]>>
    /\ Len(refs) = 3
    /\ refs[3].id = FNREF \o <<"3", get_separator>> \o LabelA
    /\ Cardinality(used_refs) = 3

====
